---- MODULE Spec2Model ----
(***************************************************************************)
(* The task CRUD handlers of routers/tasks.py (read_task, create_task,     *)
(* update_task, delete_task) over the file-backed store they drive through *)
(* FileUtils.  One action per handler; a handler runs to its return or to  *)
(* the exception that ends it, with the writes it made before that kept.   *)
(***************************************************************************)
EXTENDS Integers, Sequences, FiniteSets, TLC

(* ---------------------------------------------------------------------- *)
(* Bounds of the model                                                    *)
(* ---------------------------------------------------------------------- *)
\* number of entries of the theme index (theme ids are positions 0..NumThemes-1)
NumThemes == 1
\* create_task is not taken once a theme's count has reached MaxCount
MaxCount == 2
\* number of requests that are handled at the same time, interleaved
NumRequests == 2

Themes == 0 .. (NumThemes - 1)
\* theme ids a request may carry: every position of the index and one past its end
ThemeIds == 0 .. NumThemes
\* task ids a request may carry
TaskIds == 1 .. MaxCount

\* the four per-task resource kinds, in the order of delete_task's tuple
files_order == <<"task_info", "task_input", "task_output", "task_code">>
Kinds == {files_order[i] : i \in 1..4}

\* request values: texts, value lists and code blobs, the empty one included
Titles == {"", "A"}
Descriptions == {"", "d"}
ValueLists == {<<>>, <<1>>}
Blobs == {"", "c"}

(* ---------------------------------------------------------------------- *)
(* State                                                                  *)
(* ---------------------------------------------------------------------- *)
VARIABLES
    theme_index,  \* the theme index resource: position -> [id, count]
    files,        \* <<kind, theme, task>> -> the resource stored there, or Absent
    last,         \* the last request handled: handler, outcome, returned value
    run,          \* per theme: successful creates in a row since count was 0, or -1
    assigned,     \* per theme: the highest task id create_task ever returned
    procs         \* per request in flight: the handler, where it stands, its locals

vars == <<theme_index, files, last, run, assigned, procs>>

\* the requests handled at the same time
Requests == 1 .. NumRequests

Absent == [exists |-> FALSE]
Stored(content) == [exists |-> TRUE, content |-> content]

Keys == Kinds \X Themes \X TaskIds

NoTask == [id |-> 0]

\* a request slot no handler runs in; tried and done list, in order, the
\* resources the handler attempted and the ones it wrote or removed
Idle == [op |-> "idle", pc |-> "idle", theme_id |-> 0, task_id |-> 0,
         themes_json |-> <<>>, outcome |-> "none", tried |-> <<>>, done |-> <<>>]

(* ---------------------------------------------------------------------- *)
(* FileUtils: the storage engine                                          *)
(* ---------------------------------------------------------------------- *)
\* the lookup of a theme's entry in the index; out of range raises IndexError
InRange(index, theme_id) == theme_id \in DOMAIN index

\* what reading/removing <<kind, theme, task>> raises: "IndexError",
\* "FileNotFoundError" or "none"
AccessError(index, fs, kind, theme_id, task_id) ==
    IF ~InRange(index, theme_id) THEN "IndexError"
    ELSE IF <<kind, theme_id, task_id>> \notin DOMAIN fs THEN "FileNotFoundError"
    ELSE IF ~fs[<<kind, theme_id, task_id>>].exists THEN "FileNotFoundError"
    ELSE "none"

\* open_file / open_file_values of a resource that is there
open_file(fs, kind, theme_id, task_id) == fs[<<kind, theme_id, task_id>>].content

\* what writing <<kind, theme, task>> raises: a write creates the resource
\* when it is not there, so only the theme lookup can fail
WriteError(index, theme_id) ==
    IF ~InRange(index, theme_id) THEN "IndexError" ELSE "none"

\* save_file / save_file_values: overwrite unconditionally
save_file(fs, kind, content, theme_id, task_id) ==
    [fs EXCEPT ![<<kind, theme_id, task_id>>] = Stored(content)]

\* remove_file of a resource that is there
remove_file(fs, kind, theme_id, task_id) ==
    [fs EXCEPT ![<<kind, theme_id, task_id>>] = Absent]

(* ---------------------------------------------------------------------- *)
(* Error translation                                                      *)
(* ---------------------------------------------------------------------- *)
\* except FileNotFoundError -> 404 NotFoundTask; except IndexError -> 404 NotFoundTheme
Translate(exc) ==
    IF exc = "FileNotFoundError" THEN "NotFoundTask"
    ELSE IF exc = "IndexError" THEN "NotFoundTheme"
    ELSE exc

Init ==
    /\ theme_index = [t \in Themes |-> [id |-> t, count |-> 0]]
    /\ files = [k \in Keys |-> Absent]
    /\ last = [op |-> "init", theme_id |-> 0, task_id |-> 0, outcome |-> "ok",
               ret |-> NoTask, req |-> NoTask, before |-> 0, after_create |-> FALSE]
    /\ run = [t \in Themes |-> 0]
    /\ assigned = [t \in Themes |-> 0]
    /\ procs = [r \in Requests |-> Idle]

(* ---------------------------------------------------------------------- *)
(* Requests                                                               *)
(* ---------------------------------------------------------------------- *)
\* an optional request value: None, or the value sent
None == [none |-> TRUE]
Some(v) == [none |-> FALSE, v |-> v]
Optional(S) == {None} \cup {Some(v) : v \in S}

\* Python truthiness of an optional text / blob and of an optional list
TruthyText(x) == IF x.none THEN FALSE ELSE x.v /= ""
TruthyList(x) == IF x.none THEN FALSE ELSE Len(x.v) > 0

\* TaskCreate bodies and the required code upload of create_task
CreatePayloads ==
    [title : Titles, description : Descriptions, input : ValueLists, output : ValueLists]
CodeFiles == Blobs \ {""}

\* TaskUpdate bodies (every field optional) and the optional code upload of
\* update_task: code is None when no file is sent (File(None))
UpdateRequests ==
    [title : Optional(Titles), description : Optional(Descriptions \ {""}),
     input : Optional(ValueLists), output : Optional(ValueLists \ {<<>>})]
CodeUploads == Optional(Blobs)

(* ---------------------------------------------------------------------- *)
(* Bookkeeping of the request history                                     *)
(* ---------------------------------------------------------------------- *)
Max(a, b) == IF a >= b THEN a ELSE b

\* a request other than a successful create names theme_id: the run of
\* creates of that theme ends, and a new one starts if its count is 0
EndRun(theme_id, index) ==
    IF theme_id \in DOMAIN run
    THEN [run EXCEPT ![theme_id] = IF index[theme_id].count = 0 THEN 0 ELSE -1]
    ELSE run

\* the record of a request that is no read following the create of its task
\* (the ids are recorded for create_task and read_task, whose returned task
\* is compared with them; 0 otherwise)
Result(op, theme_id, task_id, outcome, ret) ==
    [op |-> op, theme_id |-> theme_id, task_id |-> task_id, outcome |-> outcome,
     ret |-> ret, req |-> NoTask, before |-> 0, after_create |-> FALSE]

(* ---------------------------------------------------------------------- *)
(* create_task                                                            *)
(* ---------------------------------------------------------------------- *)
\* faulty variant: the id skips one: count + 2
NewTaskId_skip(index, theme_id) == index[theme_id].count + 2

\* task_id = themes_json[theme_id].get("count") + 1
NewTaskId(index, theme_id) == index[theme_id].count + 1

\* Task(id=task_id, theme_id=theme_id, **task.dict())
NewTask(task_id, theme_id, payload) ==
    [id |-> task_id, theme_id |-> theme_id, title |-> payload.title,
     description |-> payload.description, input |-> payload.input,
     output |-> payload.output]

\* the keys id, theme_id, title, description of the task
task_description(task) ==
    [id |-> task.id, theme_id |-> task.theme_id, title |-> task.title,
     description |-> task.description]

\* the four saves: info, input values, output values, code
CreateWrites(fs, task, code, theme_id) ==
    LET f1 == save_file(fs, "task_info", task_description(task), theme_id, task.id)
        f2 == save_file(f1, "task_input", task.input, theme_id, task.id)
        f3 == save_file(f2, "task_output", task.output, theme_id, task.id)
    IN  save_file(f3, "task_code", code, theme_id, task.id)

\* faulty variant: the new count is not stored in the index
CountAfterCreate_keep(index, theme_id, task_id) == index

\* themes_json[theme_id]["count"] = task_id
CountAfterCreate(index, theme_id, task_id) ==
    [index EXCEPT ![theme_id].count = task_id]

create_task(theme_id, payload, code) ==
    IF WriteError(theme_index, theme_id) = "IndexError"
    THEN /\ last' = Result("create", theme_id, 0, "NotFoundTheme", NoTask)
         /\ UNCHANGED <<theme_index, files, run, assigned, procs>>
    ELSE LET task_id == NewTaskId(theme_index, theme_id)
             task == NewTask(task_id, theme_id, payload)
         IN  /\ theme_index[theme_id].count < MaxCount
             /\ task_id \in TaskIds
             /\ files' = CreateWrites(files, task, code, theme_id)
             /\ theme_index' = CountAfterCreate(theme_index, theme_id, task_id)
             /\ last' = [Result("create", theme_id, 0, "ok", task) EXCEPT
                            !.req = payload, !.before = theme_index[theme_id].count]
             /\ run' = [run EXCEPT ![theme_id] = IF @ >= 0 THEN @ + 1 ELSE -1]
             /\ assigned' = [assigned EXCEPT ![theme_id] = Max(@, task_id)]
             /\ UNCHANGED procs

\* faulty variant: the resources written are taken back when the index save fails
InterruptedStore_rollback(fs, task, code, theme_id) == fs

\* what is stored when save_file('theme_index') raises after the four saves:
\* no except clause and no clean-up surround lines 62-80
InterruptedStore(fs, task, code, theme_id) == CreateWrites(fs, task, code, theme_id)

\* create_task whose last save, of the theme index, raises an I/O error
create_task_interrupted(theme_id, payload, code) ==
    LET task_id == NewTaskId(theme_index, theme_id)
        task == NewTask(task_id, theme_id, payload)
    IN  /\ WriteError(theme_index, theme_id) = "none"
        /\ theme_index[theme_id].count < MaxCount
        /\ task_id \in TaskIds
        /\ files' = InterruptedStore(files, task, code, theme_id)
        /\ last' = Result("create", theme_id, 0, "OSError", NoTask)
        /\ run' = EndRun(theme_id, theme_index)
        /\ UNCHANGED <<theme_index, assigned, procs>>

(* ---------------------------------------------------------------------- *)
(* read_task                                                              *)
(* ---------------------------------------------------------------------- *)
\* the first exception of the three opens (info, input, output), or "none"
ReadError(index, fs, theme_id, task_id) ==
    LET e1 == AccessError(index, fs, "task_info", theme_id, task_id)
        e2 == AccessError(index, fs, "task_input", theme_id, task_id)
        e3 == AccessError(index, fs, "task_output", theme_id, task_id)
    IN  IF e1 /= "none" THEN e1 ELSE IF e2 /= "none" THEN e2 ELSE e3

\* faulty variant: the outputs are read into input and the inputs into output
ReadResult_swapped(fs, theme_id, task_id) ==
    LET description == open_file(fs, "task_info", theme_id, task_id)
        inputs == open_file(fs, "task_input", theme_id, task_id)
        outputs == open_file(fs, "task_output", theme_id, task_id)
    IN  [id |-> description.id, theme_id |-> description.theme_id,
         title |-> description.title, description |-> description.description,
         input |-> outputs, output |-> inputs]

\* Task(**description, input=list(inputs), output=list(outputs))
ReadResult(fs, theme_id, task_id) ==
    LET description == open_file(fs, "task_info", theme_id, task_id)
        inputs == open_file(fs, "task_input", theme_id, task_id)
        outputs == open_file(fs, "task_output", theme_id, task_id)
    IN  [id |-> description.id, theme_id |-> description.theme_id,
         title |-> description.title, description |-> description.description,
         input |-> inputs, output |-> outputs]

read_task(theme_id, task_id) ==
    LET exc == ReadError(theme_index, files, theme_id, task_id)
        follows == /\ last.op = "create"
                   /\ last.outcome = "ok"
                   /\ last.ret.theme_id = theme_id
                   /\ last.ret.id = task_id
        res == IF exc /= "none"
               THEN Result("read", theme_id, task_id, Translate(exc), NoTask)
               ELSE Result("read", theme_id, task_id, "ok",
                           ReadResult(files, theme_id, task_id))
    IN  /\ last' = IF follows
                   THEN [res EXCEPT !.req = last.req, !.before = last.before,
                                    !.after_create = TRUE]
                   ELSE res
        /\ run' = EndRun(theme_id, theme_index)
        /\ UNCHANGED <<theme_index, files, assigned, procs>>

(* ---------------------------------------------------------------------- *)
(* update_task                                                            *)
(* ---------------------------------------------------------------------- *)
\* a handler part-way: the store so far, and "running" or the outcome that ended it
Running(fs) == [fs |-> fs, outcome |-> "running"]
Ended(fs, outcome) == [fs |-> fs, outcome |-> outcome]

\* if not any(new_task_info)
EmptyUpdate(req, blob) ==
    ~(\/ TruthyText(req.title) \/ TruthyText(req.description)
      \/ TruthyList(req.input) \/ TruthyList(req.output) \/ TruthyText(blob))

\* faulty variant: the info is rebuilt from the request body, whose id is unset
OverlayInfo_rebuilt(task_info, req) ==
    [task_info EXCEPT
        !.id = 0,
        !.title = IF TruthyText(req.title) THEN req.title.v ELSE @,
        !.description = IF TruthyText(req.description) THEN req.description.v ELSE @]

\* task_info["title"] = new if new else old; the same for description
OverlayInfo(task_info, req) ==
    [task_info EXCEPT
        !.title = IF TruthyText(req.title) THEN req.title.v ELSE @,
        !.description = IF TruthyText(req.description) THEN req.description.v ELSE @]

\* if any(new_task_info[0:2]): open the info, overlay, save it
UpdateInfo(s, index, theme_id, task_id, req) ==
    IF s.outcome /= "running" \/ ~(TruthyText(req.title) \/ TruthyText(req.description))
    THEN s
    ELSE LET exc == AccessError(index, s.fs, "task_info", theme_id, task_id)
         IN  IF exc /= "none"
             THEN Ended(s.fs, Translate(exc))
             ELSE Running(save_file(s.fs, "task_info",
                            OverlayInfo(open_file(s.fs, "task_info", theme_id, task_id), req),
                            theme_id, task_id))

\* if new_task_info[2] / [3]: save the values; only FileNotFoundError is caught
UpdateValues(s, index, kind, value, theme_id, task_id) ==
    IF s.outcome /= "running" \/ ~TruthyList(value)
    THEN s
    ELSE LET exc == WriteError(index, theme_id)
         IN  IF exc = "FileNotFoundError" THEN Ended(s.fs, Translate(exc))
             ELSE IF exc /= "none" THEN Ended(s.fs, exc)
             ELSE Running(save_file(s.fs, kind, value.v, theme_id, task_id))

\* if new_task_info[4]: save the code; IndexError and FileNotFoundError are caught
UpdateCode(s, index, blob, theme_id, task_id) ==
    IF s.outcome /= "running" \/ ~TruthyText(blob)
    THEN s
    ELSE LET exc == WriteError(index, theme_id)
         IN  IF exc /= "none" THEN Ended(s.fs, Translate(exc))
             ELSE Running(save_file(s.fs, "task_code", blob.v, theme_id, task_id))

\* the handler from its first line to its return or its exception
UpdateRun(index, fs, theme_id, task_id, req, code) ==
    IF code.none
    THEN Ended(fs, "AttributeError")          \* await code.read() on None
    ELSE IF EmptyUpdate(req, code)
    THEN Ended(fs, "EmptyRequest")
    ELSE LET s1 == UpdateInfo(Running(fs), index, theme_id, task_id, req)
             s2 == UpdateValues(s1, index, "task_input", req.input, theme_id, task_id)
             s3 == UpdateValues(s2, index, "task_output", req.output, theme_id, task_id)
             s4 == UpdateCode(s3, index, code, theme_id, task_id)
         IN  IF s4.outcome = "running" THEN Ended(s4.fs, "ok") ELSE s4

update_task(theme_id, task_id, req, code) ==
    LET s == UpdateRun(theme_index, files, theme_id, task_id, req, code)
    IN  /\ files' = s.fs
        /\ last' = Result("update", 0, 0, s.outcome, NoTask)
        /\ run' = EndRun(theme_id, theme_index)
        /\ UNCHANGED <<theme_index, assigned, procs>>

(* ---------------------------------------------------------------------- *)
(* delete_task                                                            *)
(* ---------------------------------------------------------------------- *)
\* one turn of the loop over files: remove the resource, or end on its exception
RemoveOne(s, index, kind, theme_id, task_id) ==
    IF s.outcome /= "running"
    THEN s
    ELSE LET exc == AccessError(index, s.fs, kind, theme_id, task_id)
         IN  IF exc /= "none"
             THEN Ended(s.fs, Translate(exc))
             ELSE Running(remove_file(s.fs, kind, theme_id, task_id))

\* faulty variant: the loop stops before the last kind, the code
RemoveAll_short(index, fs, theme_id, task_id) ==
    LET s1 == RemoveOne(Running(fs), index, files_order[1], theme_id, task_id)
        s2 == RemoveOne(s1, index, files_order[2], theme_id, task_id)
    IN  RemoveOne(s2, index, files_order[3], theme_id, task_id)

\* for title in files: remove_file(title, ...)
RemoveAll(index, fs, theme_id, task_id) ==
    LET s1 == RemoveOne(Running(fs), index, files_order[1], theme_id, task_id)
        s2 == RemoveOne(s1, index, files_order[2], theme_id, task_id)
        s3 == RemoveOne(s2, index, files_order[3], theme_id, task_id)
    IN  RemoveOne(s3, index, files_order[4], theme_id, task_id)

\* faulty variant: the count is decremented twice
CountAfterDelete_twice(index, theme_id) ==
    [index EXCEPT ![theme_id].count = @ - 2]

\* themes[theme_id]["count"] -= 1
CountAfterDelete(index, theme_id) ==
    [index EXCEPT ![theme_id].count = @ - 1]

delete_task(theme_id, task_id) ==
    LET s == RemoveAll(theme_index, files, theme_id, task_id)
        index == IF s.outcome = "running"
                 THEN CountAfterDelete(theme_index, theme_id)
                 ELSE theme_index
    IN  /\ files' = s.fs
        /\ theme_index' = index
        /\ last' = Result("delete", 0, 0,
                          IF s.outcome = "running" THEN "ok" ELSE s.outcome, NoTask)
        /\ run' = EndRun(theme_id, index)
        /\ UNCHANGED <<assigned, procs>>

(* ---------------------------------------------------------------------- *)
(* create_task and delete_task step by step: a handler gives way to the   *)
(* other requests at each await, so its storage calls interleave with     *)
(* theirs                                                                 *)
(* ---------------------------------------------------------------------- *)
\* the TaskCreate body request r sends
RequestBody(r) ==
    IF r = 1
    THEN [title |-> "A", description |-> "", input |-> <<1>>, output |-> <<>>]
    ELSE [title |-> "", description |-> "d", input |-> <<>>, output |-> <<1>>]

\* the handler in slot r has ended with this outcome
Finish(p, outcome) == [p EXCEPT !.pc = "done", !.outcome = outcome, !.themes_json = <<>>]

\* faulty variant: the index is saved before the code
CreateNext_early(pc) ==
    CASE pc = "task_info" -> "task_input"
      [] pc = "task_input" -> "task_output"
      [] pc = "task_output" -> "theme_index"
      [] pc = "theme_index" -> "task_code"
      [] pc = "task_code" -> "done"

\* the await that follows each await of create_task
CreateNext(pc) ==
    CASE pc = "task_info" -> "task_input"
      [] pc = "task_input" -> "task_output"
      [] pc = "task_output" -> "task_code"
      [] pc = "task_code" -> "theme_index"
      [] pc = "theme_index" -> "done"

\* the handler of slot r after the await at p.pc has returned
CreateAdvance(p) ==
    LET q == [p EXCEPT !.pc = CreateNext(p.pc), !.tried = Append(@, p.pc),
                       !.done = Append(@, p.pc)]
    IN  IF q.pc = "done" THEN Finish(q, "ok") ELSE q

\* faulty variant: a resource that is there is not written again
CreateWrite_once(fs, kind, task, code, theme_id) ==
    IF fs[<<kind, theme_id, task.id>>].exists THEN fs
    ELSE save_file(fs, kind,
                   CASE kind = "task_info" -> task_description(task)
                     [] kind = "task_input" -> task.input
                     [] kind = "task_output" -> task.output
                     [] kind = "task_code" -> code,
                   theme_id, task.id)

\* one of the four saves of create_task
CreateWrite(fs, kind, task, code, theme_id) ==
    save_file(fs, kind,
              CASE kind = "task_info" -> task_description(task)
                [] kind = "task_input" -> task.input
                [] kind = "task_output" -> task.output
                [] kind = "task_code" -> code,
              theme_id, task.id)

\* create_task up to its first save: the index is opened and the id computed
create_open(r, theme_id) ==
    /\ procs[r].op = "idle"
    /\ IF WriteError(theme_index, theme_id) = "IndexError"
       THEN procs' = [procs EXCEPT ![r] =
                Finish([Idle EXCEPT !.op = "create", !.theme_id = theme_id],
                       Translate("IndexError"))]
       ELSE /\ NewTaskId(theme_index, theme_id) \in TaskIds
            /\ procs' = [procs EXCEPT ![r] =
                   [Idle EXCEPT !.op = "create", !.pc = "task_info",
                                !.theme_id = theme_id,
                                !.task_id = NewTaskId(theme_index, theme_id),
                                !.themes_json = theme_index]]
    /\ UNCHANGED <<theme_index, files, last, run, assigned>>

\* one save of create_task; the code uploaded is "c"
create_save(r) ==
    LET p == procs[r]
    IN  /\ p.op = "create" /\ p.pc \in Kinds
        /\ files' = CreateWrite(files, p.pc,
                                NewTask(p.task_id, p.theme_id, RequestBody(r)),
                                "c", p.theme_id)
        /\ procs' = [procs EXCEPT ![r] = CreateAdvance(p)]
        /\ UNCHANGED <<theme_index, last, run, assigned>>

\* the save of the index: the copy opened at the start, with the new count
create_persist(r) ==
    LET p == procs[r]
    IN  /\ p.op = "create" /\ p.pc = "theme_index"
        /\ theme_index' = CountAfterCreate(p.themes_json, p.theme_id, p.task_id)
        /\ procs' = [procs EXCEPT ![r] = CreateAdvance(p)]
        /\ UNCHANGED <<files, last, run, assigned>>

\* delete_task is called: its first await is the removal of the info
delete_start(r, theme_id, task_id) ==
    /\ procs[r].op = "idle"
    /\ procs' = [procs EXCEPT ![r] =
           [Idle EXCEPT !.op = "delete", !.pc = "task_info",
                        !.theme_id = theme_id, !.task_id = task_id]]
    /\ UNCHANGED <<theme_index, files, last, run, assigned>>

\* the await that follows each await of delete_task
DeleteNext(pc) ==
    CASE pc = "task_info" -> "task_input"
      [] pc = "task_input" -> "task_output"
      [] pc = "task_output" -> "task_code"
      [] pc = "task_code" -> "open_index"
      [] pc = "open_index" -> "theme_index"
      [] pc = "theme_index" -> "done"

\* faulty variant: a removal that fails does not end the loop
DeleteFailed_goon(p, exc) ==
    [p EXCEPT !.tried = Append(@, p.pc), !.pc = DeleteNext(p.pc)]

\* raise HTTPException inside the loop: the handler ends at the removal that fails
DeleteFailed(p, exc) ==
    Finish([p EXCEPT !.tried = Append(@, p.pc)], Translate(exc))

\* the removal was made: the next turn of the loop, or the index after the last
DeleteRemoved(p) ==
    [p EXCEPT !.tried = Append(@, p.pc), !.done = Append(@, p.pc),
              !.pc = DeleteNext(p.pc)]

\* one turn of the loop of delete_task
delete_remove(r) ==
    LET p == procs[r]
        exc == AccessError(theme_index, files, p.pc, p.theme_id, p.task_id)
    IN  /\ p.op = "delete" /\ p.pc \in Kinds
        /\ IF exc = "none"
           THEN /\ files' = remove_file(files, p.pc, p.theme_id, p.task_id)
                /\ procs' = [procs EXCEPT ![r] = DeleteRemoved(p)]
           ELSE /\ files' = files
                /\ procs' = [procs EXCEPT ![r] = DeleteFailed(p, exc)]
        /\ UNCHANGED <<theme_index, last, run, assigned>>

\* themes = await FileUtils.open_file('theme_index')
delete_open(r) ==
    LET p == procs[r]
    IN  /\ p.op = "delete" /\ p.pc = "open_index"
        /\ procs' = [procs EXCEPT ![r] =
               [p EXCEPT !.themes_json = theme_index, !.pc = DeleteNext(p.pc)]]
        /\ UNCHANGED <<theme_index, files, last, run, assigned>>

\* the save of the index: the copy opened after the loop, with the count less one
delete_persist(r) ==
    LET p == procs[r]
    IN  /\ p.op = "delete" /\ p.pc = "theme_index"
        /\ theme_index' = CountAfterDelete(p.themes_json, p.theme_id)
        /\ procs' = [procs EXCEPT ![r] =
               Finish([p EXCEPT !.tried = Append(@, p.pc), !.done = Append(@, p.pc)],
                      "ok")]
        /\ UNCHANGED <<files, last, run, assigned>>

(* ---------------------------------------------------------------------- *)
(* Specification: requests handled one at a time                          *)
(* ---------------------------------------------------------------------- *)
Create == \E theme_id \in ThemeIds, payload \in CreatePayloads, code \in CodeFiles :
            create_task(theme_id, payload, code)
Read == \E theme_id \in ThemeIds, task_id \in TaskIds : read_task(theme_id, task_id)
Update == \E theme_id \in ThemeIds, task_id \in TaskIds,
             req \in UpdateRequests, code \in CodeUploads :
            update_task(theme_id, task_id, req, code)
Delete == \E theme_id \in ThemeIds, task_id \in TaskIds : delete_task(theme_id, task_id)

Next == Create \/ Read \/ Update \/ Delete

Spec == Init /\ [][Next]_vars

(* ---------------------------------------------------------------------- *)
(* Specification: the life cycle of tasks (create, read, delete) with two *)
(* sample payloads, for the properties of ids and counts                  *)
(* ---------------------------------------------------------------------- *)
SamplePayloads ==
    {[title |-> "A", description |-> "", input |-> <<1>>, output |-> <<>>],
     [title |-> "", description |-> "d", input |-> <<>>, output |-> <<1>>]}

CreateSample == \E theme_id \in ThemeIds, payload \in SamplePayloads, code \in CodeFiles :
                  create_task(theme_id, payload, code)

NextLifecycle == CreateSample \/ Read \/ Delete

SpecLifecycle == Init /\ [][NextLifecycle]_vars

(* ---------------------------------------------------------------------- *)
(* Specification: the life cycle of tasks where the save of the theme     *)
(* index at the end of create_task may fail                               *)
(* ---------------------------------------------------------------------- *)
CreateInterrupted ==
    \E theme_id \in Themes, payload \in SamplePayloads, code \in CodeFiles :
        create_task_interrupted(theme_id, payload, code)

NextFailure == CreateSample \/ Read \/ Delete \/ CreateInterrupted

SpecFailure == Init /\ [][NextFailure]_vars

(* ---------------------------------------------------------------------- *)
(* Specification: requests handled one at a time over an index of two or  *)
(* more themes                                                            *)
(* ---------------------------------------------------------------------- *)
\* the themes of an index with one entry more, and the theme ids sent
SharedThemes == 0 .. NumThemes
SharedThemeIds == 0 .. (NumThemes + 1)

InitShared ==
    /\ theme_index = [t \in SharedThemes |-> [id |-> t, count |-> 0]]
    /\ files = [k \in Kinds \X SharedThemes \X TaskIds |-> Absent]
    /\ last = Result("init", 0, 0, "ok", NoTask)
    /\ run = [t \in SharedThemes |-> 0]
    /\ assigned = [t \in SharedThemes |-> 0]
    /\ procs = [r \in Requests |-> Idle]

\* TaskUpdate bodies with one field each and the code upload, sent or not
SampleUpdates ==
    {[title |-> Some("A"), description |-> None, input |-> None, output |-> None],
     [title |-> None, description |-> None, input |-> Some(<<1>>), output |-> None]}

CreateShared ==
    \E theme_id \in SharedThemeIds :
        create_task(theme_id, RequestBody(1), "c")

UpdateShared ==
    \E theme_id \in SharedThemeIds, task_id \in TaskIds,
       req \in SampleUpdates, code \in {None, Some("c")} :
        update_task(theme_id, task_id, req, code)

DeleteShared ==
    \E theme_id \in SharedThemeIds, task_id \in TaskIds : delete_task(theme_id, task_id)

NextShared == CreateShared \/ UpdateShared \/ DeleteShared

SpecShared == InitShared /\ [][NextShared]_vars

(* ---------------------------------------------------------------------- *)
(* Specification: create_task and delete_task requests handled at the     *)
(* same time, interleaved at their awaits                                 *)
(* ---------------------------------------------------------------------- *)
CreateOpen == \E r \in Requests, theme_id \in SharedThemeIds : create_open(r, theme_id)
CreateSave == \E r \in Requests : create_save(r)
CreatePersist == \E r \in Requests : create_persist(r)
DeleteStart ==
    \E r \in Requests, theme_id \in SharedThemeIds, task_id \in TaskIds :
        delete_start(r, theme_id, task_id)
DeleteRemove == \E r \in Requests : delete_remove(r)
DeleteOpen == \E r \in Requests : delete_open(r)
DeletePersist == \E r \in Requests : delete_persist(r)

NextConcurrent ==
    \/ CreateOpen \/ CreateSave \/ CreatePersist
    \/ DeleteStart \/ DeleteRemove \/ DeleteOpen \/ DeletePersist

SpecConcurrent == InitShared /\ [][NextConcurrent]_vars

(* ---------------------------------------------------------------------- *)
(* Properties                                                             *)
(* ---------------------------------------------------------------------- *)
Exists(fs, kind, theme_id, task_id) == fs[<<kind, theme_id, task_id>>].exists
AllFour(fs, theme_id, task_id) == \A kind \in Kinds : Exists(fs, kind, theme_id, task_id)
NoneOfFour(fs, theme_id, task_id) == \A kind \in Kinds : ~Exists(fs, kind, theme_id, task_id)

\* C1: in a theme whose count was 0, after N successful create_task calls in a
\* row (no other request on the theme in between) the count is N, and the id
\* returned by the N-th create is N, so the ids are 1, 2, ..., N in call order.
C1_SequentialCreates ==
    \A t \in Themes :
        run[t] >= 0 =>
            /\ theme_index[t].count = run[t]
            /\ (last.op = "create" /\ last.outcome = "ok" /\ last.theme_id = t
                    /\ run[t] >= 1)
                => last.ret.id = run[t]

\* a run of MaxCount creates from count 0 has just ended with its last create
C1_Witness ==
    /\ last.op = "create" /\ last.outcome = "ok"
    /\ run[last.theme_id] = MaxCount
    /\ MaxCount >= 2

\* C2: a read_task that immediately follows a successful create_task, with the
\* theme_id and id the create returned, succeeds and returns the id "count
\* before the create + 1", the request's theme_id, and the title, description,
\* input and output of the created payload.
C2_RoundTrip ==
    (last.op = "read" /\ last.after_create) =>
        /\ last.outcome = "ok"
        /\ last.ret.id = last.before + 1
        /\ last.ret.id = last.task_id
        /\ last.ret.theme_id = last.theme_id
        /\ last.ret.title = last.req.title
        /\ last.ret.description = last.req.description
        /\ last.ret.input = last.req.input
        /\ last.ret.output = last.req.output

\* a task with a title, no description, one input and no output was created
\* as the second of its theme and read back
C2_Witness ==
    /\ last.op = "read" /\ last.after_create /\ last.outcome = "ok"
    /\ last.before = 1
    /\ last.req = [title |-> "A", description |-> "", input |-> <<1>>, output |-> <<>>]

\* C3: a successful delete_task of a task whose four resources exist leaves none
\* of the four, so that read_task of the same ids then fails with NotFoundTask,
\* and the theme's count is one less than before (no other count changes).
C3_DeleteRemoves ==
    [][\A t \in Themes, k \in TaskIds :
          (AllFour(files, t, k) /\ delete_task(t, k) /\ last'.outcome = "ok") =>
              /\ NoneOfFour(files', t, k)
              /\ Translate(ReadError(theme_index', files', t, k)) = "NotFoundTask"
              /\ theme_index'[t].count = theme_index[t].count - 1
              /\ \A u \in Themes \ {t} : theme_index'[u] = theme_index[u]]_vars

\* a delete has succeeded and left its theme with one task fewer than were created
C3_Witness ==
    /\ last.op = "delete" /\ last.outcome = "ok"
    /\ \E t \in Themes : assigned[t] >= 1 /\ theme_index[t].count < assigned[t]

\* the stored parts of a task whose four resources exist
StoredTitle(fs, t, k) == fs[<<"task_info", t, k>>].content.title
StoredDescription(fs, t, k) == fs[<<"task_info", t, k>>].content.description
StoredInput(fs, t, k) == fs[<<"task_input", t, k>>].content
StoredOutput(fs, t, k) == fs[<<"task_output", t, k>>].content
StoredCode(fs, t, k) == fs[<<"task_code", t, k>>].content

\* a request field is present when it is not None; a code upload is present
\* when a file with content is sent
Present(x) == ~x.none
CodePresent(code) == TruthyText(code)

\* the store is left as it was
StoreUnchanged == files' = files /\ theme_index' = theme_index

\* C4: after update_task on an existing task, each of title, description,
\* input, output and code equals the request's value when the request carries
\* the field (input and output as a whole, whatever list is sent) and its
\* previously stored value when it does not.
C4_PartialUpdate ==
    [][\A t \in Themes, k \in TaskIds, req \in UpdateRequests, code \in CodeUploads :
          (AllFour(files, t, k) /\ update_task(t, k, req, code)) =>
              /\ AllFour(files', t, k)
              /\ StoredTitle(files', t, k) =
                    IF Present(req.title) THEN req.title.v ELSE StoredTitle(files, t, k)
              /\ StoredDescription(files', t, k) =
                    IF Present(req.description) THEN req.description.v
                    ELSE StoredDescription(files, t, k)
              /\ StoredInput(files', t, k) =
                    IF Present(req.input) THEN req.input.v ELSE StoredInput(files, t, k)
              /\ StoredOutput(files', t, k) =
                    IF Present(req.output) THEN req.output.v ELSE StoredOutput(files, t, k)
              /\ StoredCode(files', t, k) =
                    IF CodePresent(code) THEN code.v ELSE StoredCode(files, t, k)]_vars

\* the TaskUpdate body with no field
NoFields == [title |-> None, description |-> None, input |-> None, output |-> None]

\* C5: an update_task request with none of title, description, input, output
\* and no code upload ends with EmptyRequest and leaves every task resource and
\* the theme index as they were.
C5_EmptyUpdateRejected ==
    [][\A t \in ThemeIds, k \in TaskIds, code \in CodeUploads :
          (~CodePresent(code) /\ update_task(t, k, NoFields, code)) =>
              (last'.outcome = "EmptyRequest" /\ StoreUnchanged)]_vars

\* C6: in a valid theme, read_task, update_task (carrying at least one of
\* title, description, input, output, code) and delete_task of a task id that
\* create_task never returned each fail with NotFoundTask and leave the store
\* as it was.
C6_NeverCreated ==
    [][\A t \in Themes, k \in TaskIds :
          k > assigned[t] =>
              /\ read_task(t, k) => (last'.outcome = "NotFoundTask" /\ StoreUnchanged)
              /\ delete_task(t, k) => (last'.outcome = "NotFoundTask" /\ StoreUnchanged)
              /\ \A req \in UpdateRequests, code \in CodeUploads :
                    (~EmptyUpdate(req, code) /\ update_task(t, k, req, code)) =>
                        (last'.outcome = "NotFoundTask" /\ StoreUnchanged)]_vars

\* C7: with a theme_id that is no position of the theme index, create_task,
\* read_task, update_task (carrying at least one field) and delete_task each
\* fail with NotFoundTheme and leave the store as it was.
C7_ThemeOutOfRange ==
    [][\A t \in ThemeIds \ Themes :
          /\ \A payload \in CreatePayloads, code \in CodeFiles :
                create_task(t, payload, code) =>
                    (last'.outcome = "NotFoundTheme" /\ StoreUnchanged)
          /\ \A k \in TaskIds :
                /\ read_task(t, k) => (last'.outcome = "NotFoundTheme" /\ StoreUnchanged)
                /\ delete_task(t, k) => (last'.outcome = "NotFoundTheme" /\ StoreUnchanged)
                /\ \A req \in UpdateRequests, code \in CodeUploads :
                      (~EmptyUpdate(req, code) /\ update_task(t, k, req, code)) =>
                          (last'.outcome = "NotFoundTheme" /\ StoreUnchanged)]_vars

\* the task records stored for a theme: the ids whose info resource exists
Records(t) == {k \in TaskIds : Exists(files, "task_info", t, k)}

\* C8 (I1): between requests handled one at a time, every theme's count equals
\* the number of task records stored for the theme.
C8_CountEqualsRecords ==
    \A t \in Themes : theme_index[t].count = Cardinality(Records(t))

\* C9 (I2): between requests handled one at a time, the four resources of
\* every (theme_id, task_id) all exist or none of them exists.
C9_AllOrNone ==
    \A t \in Themes, k \in TaskIds : AllFour(files, t, k) \/ NoneOfFour(files, t, k)

\* C10 (I4): a successful create_task returns id = count + 1, and no task
\* record with that id is stored in the theme when it does (create_task never
\* overwrites a live task).
C10_NoIdReuse ==
    [][\A t \in Themes, payload \in CreatePayloads, code \in CodeFiles :
          (create_task(t, payload, code) /\ last'.outcome = "ok") =>
              /\ last'.ret.id = theme_index[t].count + 1
              /\ ~Exists(files, "task_info", t, last'.ret.id)]_vars

\* the outcomes the handlers translate storage failures into
DomainErrors == {"NotFoundTheme", "NotFoundTask", "EmptyRequest"}

\* C11: every request that fails ends with NotFoundTheme, NotFoundTask or
\* EmptyRequest; no request ends with an untranslated exception.
C11_OnlyDomainErrors == last.outcome \in {"ok"} \cup DomainErrors

C16_OrphanedTask ==
    [][\A t \in Themes, payload \in SamplePayloads, code \in CodeFiles :
          create_task_interrupted(t, payload, code) =>
              /\ AllFour(files', t, theme_index[t].count + 1)
              /\ theme_index' = theme_index
              /\ (/\ theme_index[t].count = Cardinality(Records(t))
                  /\ theme_index[t].count + 1 \notin Records(t))
                 => Cardinality({k \in TaskIds : Exists(files', "task_info", t, k)})
                        = theme_index'[t].count + 1]_vars

\* a create has just failed at its index save in an empty theme, leaving a task
C16_Witness ==
    /\ last.op = "create" /\ last.outcome = "OSError"
    /\ theme_index[last.theme_id].count = 0
    /\ AllFour(files, last.theme_id, 1)

\* C17: every stored info resource records the task id and the theme id of
\* the place it is stored at, whatever creates and updates were made.
C17_IdentityKept ==
    \A t \in Themes, k \in TaskIds :
        Exists(files, "task_info", t, k) =>
            /\ files[<<"task_info", t, k>>].content.id = k
            /\ files[<<"task_info", t, k>>].content.theme_id = t

\* an update has just succeeded and the second task of a theme has a title
C17_Witness ==
    /\ last.op = "update" /\ last.outcome = "ok"
    /\ \E t \in Themes :
          /\ Exists(files, "task_info", t, 2)
          /\ files[<<"task_info", t, 2>>].content.title = "A"
          /\ files[<<"task_info", t, 2>>].content.description = "d"

\* C19: between requests handled one at a time, every theme's count is at
\* least 0 and at least the number of its tasks that have an info resource.
C19_CountLowerBound ==
    \A t \in Themes :
        /\ theme_index[t].count >= 0
        /\ theme_index[t].count >= Cardinality(Records(t))

\* a create has left a theme with a count above its number of tasks
C19_Witness ==
    /\ last.op = "create" /\ last.outcome = "ok"
    /\ \E t \in Themes : theme_index[t].count > Cardinality(Records(t))

\* the slot holds a handler of this kind that has returned without an error
Succeeded(p, op) == p.op = op /\ p.pc = "done" /\ p.outcome = "ok"

\* the resources of task k of theme t hold what request r's create writes
HoldsTaskOf(r, t, k) ==
    /\ AllFour(files, t, k)
    /\ files[<<"task_info", t, k>>].content =
           task_description(NewTask(k, t, RequestBody(r)))
    /\ files[<<"task_input", t, k>>].content = RequestBody(r).input
    /\ files[<<"task_output", t, k>>].content = RequestBody(r).output

\* C12: two create_task requests on one theme that interleave can both compute
\* the same id. Each save of a create replaces whatever is stored under its
\* key, another create's resource included, and once two creates with the
\* same id have both returned and no other request was made, the theme's
\* count is that id: it rose by 1, not by 2.
C12_LostUpdate ==
    /\ [](\A r, s \in Requests :
            (/\ r /= s
             /\ Succeeded(procs[r], "create") /\ Succeeded(procs[s], "create")
             /\ procs[r].theme_id = procs[s].theme_id
             /\ procs[r].task_id = procs[s].task_id
             /\ \A q \in Requests \ {r, s} : procs[q].op = "idle")
            => theme_index[procs[r].theme_id].count = procs[r].task_id)
    /\ [][\A r \in Requests :
            create_save(r) =>
                files'[<<procs[r].pc, procs[r].theme_id, procs[r].task_id>>] =
                    Stored(CASE procs[r].pc = "task_info" ->
                                    task_description(NewTask(procs[r].task_id,
                                        procs[r].theme_id, RequestBody(r)))
                             [] procs[r].pc = "task_input" -> RequestBody(r).input
                             [] procs[r].pc = "task_output" -> RequestBody(r).output
                             [] procs[r].pc = "task_code" -> "c")]_vars

\* two creates on theme 0 have both returned task 1, the count is 1 and the
\* task stored is the one of request 2: what request 1 wrote is gone
C12_Witness ==
    /\ Succeeded(procs[1], "create") /\ Succeeded(procs[2], "create")
    /\ procs[1].theme_id = 0 /\ procs[2].theme_id = 0
    /\ procs[1].task_id = 1 /\ procs[2].task_id = 1
    /\ theme_index[0].count = 1
    /\ HoldsTaskOf(2, 0, 1)

\* C13 as stated: a delete_task that has ended has attempted the removal of
\* all four kinds, whether or not one of the removals failed.
C13_AllFourAttempted ==
    \A r \in Requests :
        (procs[r].op = "delete" /\ procs[r].pc = "done") => procs[r].tried = files_order

\* C13, amended: delete_task attempts the removals in the order info, input,
\* output, code and ends at the first that fails: the kinds before it have
\* been removed, the kinds after it are not attempted and stay as they are.
\* When only the code is missing, info, input and output have been removed
\* by the time the call fails.
C13_StopsAtFirstFailure ==
    [][\A r \in Requests :
          delete_remove(r) =>
              LET p == procs[r]
                  q == procs'[r]
                  key == <<p.pc, p.theme_id, p.task_id>>
              IN  /\ p.done = SubSeq(files_order, 1, Len(p.done))
                  /\ p.tried = p.done
                  /\ p.pc = files_order[Len(p.done) + 1]
                  /\ q.tried = Append(p.tried, p.pc)
                  /\ IF p.theme_id \in SharedThemes /\ files[key].exists
                     THEN /\ files' = [files EXCEPT ![key] = Absent]
                          /\ q.done = Append(p.done, p.pc)
                          /\ q.pc /= "done"
                     ELSE /\ files' = files
                          /\ q.done = p.done
                          /\ q.pc = "done"
                          /\ q.outcome \in {"NotFoundTask", "NotFoundTheme"}]_vars

\* a delete has failed at the code, the only kind that was missing, after it
\* removed info, input and output
C13_Witness ==
    \E r \in Requests :
        /\ procs[r].op = "delete" /\ procs[r].pc = "done"
        /\ procs[r].outcome = "NotFoundTask"
        /\ procs[r].tried = files_order
        /\ procs[r].done = <<"task_info", "task_input", "task_output">>
        /\ \A kind \in Kinds \ {"task_code"} :
              ~Exists(files, kind, procs[r].theme_id, procs[r].task_id)

\* the order of the saves of a create_task
SaveOrder == files_order \o <<"theme_index">>

\* C14: every create_task saves in the order info, input, output, code, index:
\* what it has saved so far is a start of that order, so its index save, which
\* sets the count to the new id, comes after its four resource saves.
C14_WritesInOrder ==
    \A r \in Requests :
        procs[r].op = "create" =>
            /\ procs[r].done = SubSeq(SaveOrder, 1, Len(procs[r].done))
            /\ Succeeded(procs[r], "create") => procs[r].done = SaveOrder

\* a create has saved its index and the count is its id
C14_Witness ==
    \E r \in Requests :
        /\ Succeeded(procs[r], "create")
        /\ procs[r].done = SaveOrder
        /\ theme_index[procs[r].theme_id].count = procs[r].task_id
        /\ \E s \in Requests : procs[s].op = "create" /\ Len(procs[s].done) = 2

\* the creates less the deletes that have succeeded on theme t
NetCount(t) ==
    Cardinality({r \in Requests : Succeeded(procs[r], "create") /\ procs[r].theme_id = t})
    - Cardinality({r \in Requests : Succeeded(procs[r], "delete") /\ procs[r].theme_id = t})

\* C18: when the requests made are on different themes and all have returned,
\* every theme's count is its creates less its deletes: no update of a count
\* is lost to a request on another theme.
C18_ThemesIsolated ==
    (/\ \A r \in Requests : procs[r].pc \in {"idle", "done"}
     /\ \A r, s \in Requests :
           (r /= s /\ procs[r].op /= "idle" /\ procs[s].op /= "idle")
           => procs[r].theme_id /= procs[s].theme_id)
    => \A t \in SharedThemes : theme_index[t].count = NetCount(t)

\* C20: whatever the interleaving of create_task and delete_task requests,
\* no theme's count is negative.
C20_CountNeverNegative ==
    \A t \in SharedThemes : theme_index[t].count >= 0

====
